---- MODULE Spec2Model ----
(***************************************************************************)
(* A model of plot_benchmarks.py: load_benchmark_results,                  *)
(* create_comparison_plot and _plot_benchmark_group.                       *)
(*                                                                         *)
(* Text is a sequence of one-character strings, so that the substring,     *)
(* prefix and split tests of the script are computed, not assumed.         *)
(* A Python dict is a sequence of [k, v] records in insertion order: the   *)
(* script iterates over dicts, and the iteration order decides which       *)
(* implementation name is kept.  Times are integers (a number of time      *)
(* units); the arithmetic of the script is applied to them exactly, and    *)
(* the quotient of the percentage difference is kept as a fraction.        *)
(***************************************************************************)
EXTENDS Integers, Sequences, FiniteSets

\* ------------------------------------------------------------------ bounds
\* The most files a directory of the first family holds.
MaxFiles == 3
\* The most measurement entries of a generated result file.
MaxEntries == 2
\* The largest mean (in time units) of a generated measurement entry.
MaxMean == 1
\* The most files a directory of the second family holds.
MaxNamed == 2

\* -------------------------------------------------------------------- text
\* The characters the model uses, in ascending code point order
\* ('.' 46, '/' 47, '_' 95, then the lowercase letters).
Alphabet ==
    << ".", "/", "_", "a", "b", "c", "d", "e", "f", "h", "j", "l", "m",
       "n", "o", "p", "r", "s", "t", "u", "x", "y" >>

\* ord(c), up to an order-preserving renumbering.
Ord(c) == CHOOSE i \in 1..Len(Alphabet) : Alphabet[i] = c

\* Python's str < str: the first differing character decides, a proper
\* prefix is smaller.
RECURSIVE LexLess(_, _)
LexLess(a, b) ==
    IF b = <<>> THEN FALSE
    ELSE IF a = <<>> THEN TRUE
    ELSE IF Head(a) # Head(b) THEN Ord(Head(a)) < Ord(Head(b))
    ELSE LexLess(Tail(a), Tail(b))

\* s.startswith(p)
StartsWith(s, p) ==
    /\ Len(p) <= Len(s)
    /\ SubSeq(s, 1, Len(p)) = p

\* s.endswith(p)
EndsWith(s, p) ==
    /\ Len(p) <= Len(s)
    /\ SubSeq(s, Len(s) - Len(p) + 1, Len(s)) = p

\* sub in s
Contains(s, sub) ==
    \E i \in 0..(Len(s) - Len(sub)) : SubSeq(s, i + 1, i + Len(sub)) = sub

\* s.rfind(c) + 1: the position of the last c in s, 0 when there is none.
LastIndex(s, c) ==
    LET at == {i \in 1..Len(s) : s[i] = c}
    IN  IF at = {} THEN 0 ELSE CHOOSE i \in at : \A j \in at : j <= i

\* s.find(c) + 1 from position `from` on: 0 when there is none.
FirstIndexFrom(s, c, from) ==
    LET at == {i \in from..Len(s) : s[i] = c}
    IN  IF at = {} THEN 0 ELSE CHOOSE i \in at : \A j \in at : i <= j

\* s.split(sep)[-1]: the text after the last sep, all of s without one.
SplitLast(s, sep) == SubSeq(s, LastIndex(s, sep) + 1, Len(s))

\* Mutant of SplitMax2Last: splits once, keeps the text after the first sep.
SplitMax1Last(s, sep) ==
    SubSeq(s, FirstIndexFrom(s, sep, 1) + 1, Len(s))

\* s.split(sep, 2)[-1]: at most two splits from the left, the last part.
SplitMax2Last(s, sep) ==
    LET i1 == FirstIndexFrom(s, sep, 1)
        i2 == IF i1 = 0 THEN 0 ELSE FirstIndexFrom(s, sep, i1 + 1)
    IN  IF i1 = 0 THEN s
        ELSE IF i2 = 0 THEN SubSeq(s, i1 + 1, Len(s))
        ELSE SubSeq(s, i2 + 1, Len(s))

\* os.path.basename(p)
Basename(p) == SplitLast(p, "/")

\* Mutant of SplitextRoot: cuts at the first dot of the name.
SplitextRootFirstDot(p) ==
    LET dot == FirstIndexFrom(p, ".", 1)
    IN  IF dot = 0 THEN p ELSE SubSeq(p, 1, dot - 1)

\* os.path.splitext(p)[0]: p cut before its last dot, when that dot comes
\* after the last '/' and after a character of the name that is no dot.
SplitextRoot(p) ==
    LET sep == LastIndex(p, "/")
        dot == LastIndex(p, ".")
    IN  IF dot > sep /\ \E i \in (sep + 1)..(dot - 1) : p[i] # "."
        THEN SubSeq(p, 1, dot - 1)
        ELSE p

\* ------------------------------------------------------------------- dicts
EmptyDict == <<>>

DictKeys(d) == [i \in 1..Len(d) |-> d[i].k]

DictHas(d, key) == \E i \in 1..Len(d) : d[i].k = key

\* d[key], for a key of d.
DictGet(d, key) == d[CHOOSE i \in 1..Len(d) : d[i].k = key].v

\* Mutant of DictSet: d.setdefault(key, val), the first value is kept.
DictSetDefault(d, key, val) ==
    IF DictHas(d, key) THEN d ELSE Append(d, [k |-> key, v |-> val])

\* d[key] = val: a new key goes last, a known key keeps its place and takes
\* the new value.
DictSet(d, key, val) ==
    IF DictHas(d, key)
    THEN [i \in 1..Len(d) |->
            IF d[i].k = key THEN [k |-> key, v |-> val] ELSE d[i]]
    ELSE Append(d, [k |-> key, v |-> val])

\* ------------------------------------------------------------ program text
RESULTS_ == << "r", "e", "s", "u", "l", "t", "s", "_" >>
RESULTS_COPY == RESULTS_ \o << "c", "o", "p", "y" >>
RESULTS_APPEND == RESULTS_ \o << "a", "p", "p", "e", "n", "d" >>
RESULTS_FORMAT == RESULTS_ \o << "f", "o", "r", "m", "a", "t" >>
DOT_JSON == << ".", "j", "s", "o", "n" >>
SSTR == << "s", "s", "t", "r" >>
STD == << "s", "t", "d" >>

\* The three category prefixes, in panel order.
CategoryPrefixes == << RESULTS_COPY, RESULTS_APPEND, RESULTS_FORMAT >>

\* The three panel titles.
Titles ==
    << "String Copy Performance", "String Append Performance",
       "String Format Performance" >>

\* fnmatch of a file name against "results_*.json".
MatchesPattern(name) ==
    /\ StartsWith(name, RESULTS_)
    /\ EndsWith(name, DOT_JSON)
    /\ Len(name) >= Len(RESULTS_) + Len(DOT_JSON)

\* None: the script only tests it for truth, as it tests the empty text.
None == <<>>

Truthy(x) == x # <<>>

\* ------------------------------------------------------------------ inputs
\* One measurement object of a result file.  The other statistics follow
\* the mean, and differ from it and from one another.
Measurement(cmd, m) ==
    [command |-> cmd, mean |-> m, stddev |-> 1,
     min |-> IF m > 0 THEN m - 1 ELSE 0, max |-> m + 2]

CmdSstr == << ".", "/", "b", "/" >> \o SSTR
CmdStd == << ".", "/", "b", "/" >> \o STD
\* The same executable name as CmdSstr, in another directory.
CmdSstrElsewhere == << ".", "/", "a", "/" >> \o SSTR
\* No '/', and both substrings.
CmdBoth == SSTR \o << "_" >> \o STD
\* 'std' inside a longer name.
CmdMyStd == << "b", "/", "m", "y", "_" >> \o STD \o << "_", "x" >>
\* Neither substring.
CmdPlain == << ".", "/", "b", "/", "b", "a", "s", "e" >>

\* The commands of generated files.
Commands == {CmdSstr, CmdSstrElsewhere, CmdBoth, CmdMyStd, CmdPlain}

\* All sequences over S of length at most n.
SeqsUpTo(S, n) == UNION { [1..k -> S] : k \in 0..n }

\* The "results" arrays of generated files.
GeneratedContents ==
    SeqsUpTo({Measurement(c, m) : c \in Commands, m \in 0..MaxMean}, MaxEntries)

\* A file with one sstr and one std measurement.
Pair(s, t) == << Measurement(CmdSstr, s), Measurement(CmdStd, t) >>

\* The contents of the first family: faster, slower, a zero std mean, and
\* no std measurement at all.
WideContents == {Pair(1, 2), Pair(2, 1), Pair(1, 0), << Measurement(CmdSstr, 1) >>}

FileCopyA == RESULTS_COPY \o << "_", "a" >> \o DOT_JSON
FileCopyBC == RESULTS_COPY \o << "_", "b", "_", "c" >> \o DOT_JSON
FileCopyx == RESULTS_COPY \o << "x" >> \o DOT_JSON
FileAppendA == RESULTS_APPEND \o << "_", "a" >> \o DOT_JSON

WideNames == {FileCopyA, FileCopyBC, FileCopyx, FileAppendA}

\* File names of the second family: the three categories, names outside
\* them, a name with two dots, and names the pattern does not match.
NameCatalogue ==
    WideNames \cup
    { RESULTS_FORMAT \o << "_", "a", "_", "b" >> \o DOT_JSON,
      RESULTS_ \o << "o", "t", "h", "e", "r", "_", "x" >> \o DOT_JSON,
      RESULTS_ \o << "c", "o", "p", "_", "a" >> \o DOT_JSON,
      RESULTS_COPY \o << "_", "a", ".", "b" >> \o DOT_JSON,
      RESULTS_ \o DOT_JSON,
      << "r", "e", "s", "u", "l", "t", "s" >> \o DOT_JSON,
      RESULTS_COPY \o << "_", "a", ".", "t", "x", "t" >> }

\* Every function from a subset of Names with at most n members to Contents.
DirsOver(Names, Contents, n) ==
    UNION { [S -> Contents] : S \in {T \in SUBSET Names : Cardinality(T) <= n} }

\* The directories the script is run in: a few files with few contents,
\* a few files of any catalogued name, one file of any generated content.
Directories ==
    DirsOver(WideNames, WideContents, MaxFiles)
      \cup DirsOver(NameCatalogue, {Pair(1, 2)}, MaxNamed)
      \cup [{FileCopyA} -> GeneratedContents]

\* ------------------------------------------------------------------- state
VARIABLES
    dir,          \* the working directory: file name -> "results" array
    pc,           \* the statement the script has reached
    todo,         \* the file names glob returned, not yet loaded
    results,      \* load_benchmark_results' dict
    cats,         \* copy_benchmarks, append_benchmarks, format_benchmarks
    panel,        \* the axis _plot_benchmark_group is called for (1..3)
    x_labels,     \* _plot_benchmark_group's list
    sstr_means,   \* _plot_benchmark_group's list
    std_means,    \* _plot_benchmark_group's list
    idx,          \* the i of the annotation loop
    axes,         \* what has been drawn into each of the three axes
    err,          \* the exception that ended the run, "none" without one
    saved,        \* the image file has been written
    printed       \* the confirmation line has been printed

vars ==
    << dir, pc, todo, results, cats, panel, x_labels, sstr_means, std_means,
       idx, axes, err, saved, printed >>

EmptyAxis ==
    [sstr_bars |-> <<>>, std_bars |-> <<>>, texts |-> <<>>, title |-> "",
     xticklabels |-> <<>>]

Init ==
    /\ dir \in Directories
    /\ pc = "glob"
    /\ todo = <<>>
    /\ results = EmptyDict
    /\ cats = << <<>>, <<>>, <<>> >>
    /\ panel = 0
    /\ x_labels = <<>>
    /\ sstr_means = <<>>
    /\ std_means = <<>>
    /\ idx = 0
    /\ axes = [p \in 1..3 |-> EmptyAxis]
    /\ err = "none"
    /\ saved = FALSE
    /\ printed = FALSE

\* -------------------------------------------------- load_benchmark_results
\* The orders in which a set of names can be listed.
Orders(S) ==
    {s \in [1..Cardinality(S) -> S] : \A i, j \in 1..Cardinality(S) : s[i] = s[j] => i = j}

\* glob.glob("results_*.json"): the matching names, in any order.
Glob ==
    /\ pc = "glob"
    /\ todo' \in Orders({f \in DOMAIN dir : MatchesPattern(f)})
    /\ pc' = "load"
    /\ UNCHANGED << dir, results, cats, panel, x_labels, sstr_means, std_means,
                    idx, axes, err, saved, printed >>

\* result['command'].split('/')[-1]
DisplayName(command) == SplitLast(command, "/")

\* The dict literal of one measurement.
Statistics(result) ==
    [mean |-> result.mean, stddev |-> result.stddev,
     min |-> result.min, max |-> result.max]

\* The loop over data['results'], from benchmark_data = acc.
RECURSIVE BenchmarkData(_, _)
BenchmarkData(entries, acc) ==
    IF entries = <<>> THEN acc
    ELSE BenchmarkData(Tail(entries),
                       DictSet(acc, DisplayName(Head(entries).command),
                               Statistics(Head(entries))))

\* os.path.splitext(os.path.basename(filename))[0]
BenchmarkName(filename) == SplitextRoot(Basename(filename))

\* One turn of the loop over the matched files.
LoadFile ==
    /\ pc = "load"
    /\ todo # <<>>
    /\ LET filename == Head(todo)
           benchmark_data == BenchmarkData(dir[filename], EmptyDict)
       IN  results' = DictSet(results, BenchmarkName(filename), benchmark_data)
    /\ todo' = Tail(todo)
    /\ UNCHANGED << dir, pc, cats, panel, x_labels, sstr_means, std_means,
                    idx, axes, err, saved, printed >>

\* -------------------------------------------------- create_comparison_plot
\* x placed into an ascending list, after the members equal to it.
RECURSIVE Insert(_, _)
Insert(x, s) ==
    IF s = <<>> THEN << x >>
    ELSE IF LexLess(x, Head(s)) THEN << x >> \o s
    ELSE << Head(s) >> \o Insert(x, Tail(s))

RECURSIVE SortedList(_)
SortedList(s) ==
    IF s = <<>> THEN <<>> ELSE Insert(s[Len(s)], SortedList(SubSeq(s, 1, Len(s) - 1)))

\* Mutant of Benchmarks: the keys as the dict lists them.
BenchmarksUnsorted(res) == DictKeys(res)

\* sorted(results.keys())
Benchmarks(res) == SortedList(DictKeys(res))

\* Mutant of InCategory: the last character of the prefix is not compared.
InCategoryShortPrefix(b, c) ==
    StartsWith(b, SubSeq(CategoryPrefixes[c], 1, Len(CategoryPrefixes[c]) - 1))

\* b.startswith('results_copy'), 'results_append' or 'results_format'
InCategory(b, c) == StartsWith(b, CategoryPrefixes[c])

\* [b for b in benchmarks if b.startswith(prefix)]
RECURSIVE CategoryList(_, _)
CategoryList(benchmarks, c) ==
    IF benchmarks = <<>> THEN <<>>
    ELSE (IF InCategory(Head(benchmarks), c) THEN << Head(benchmarks) >> ELSE <<>>)
           \o CategoryList(Tail(benchmarks), c)

\* The statements before the first call of _plot_benchmark_group.
CreateComparisonPlot ==
    /\ pc = "load"
    /\ todo = <<>>
    /\ cats' = [c \in 1..3 |-> CategoryList(Benchmarks(results), c)]
    /\ panel' = 1
    /\ pc' = "collect"
    /\ UNCHANGED << dir, todo, results, x_labels, sstr_means, std_means, idx,
                    axes, err, saved, printed >>

\* --------------------------------------------------- _plot_benchmark_group
\* Mutant of Role: 'std' is tested first.
RoleStdFirst(impl_name) ==
    IF Contains(impl_name, STD) THEN "std"
    ELSE IF Contains(impl_name, SSTR) THEN "sstr"
    ELSE "none"

\* The if/elif of the loop over the implementation names.
Role(impl_name) ==
    IF Contains(impl_name, SSTR) THEN "sstr"
    ELSE IF Contains(impl_name, STD) THEN "std"
    ELSE "none"

\* The loop over results[benchmark].keys(), from the pair found so far.
RECURSIVE FindImpls(_, _)
FindImpls(names, found) ==
    IF names = <<>> THEN found
    ELSE FindImpls(Tail(names),
                   IF Role(Head(names)) = "sstr"
                   THEN [found EXCEPT !.sstr_impl = Head(names)]
                   ELSE IF Role(Head(names)) = "std"
                   THEN [found EXCEPT !.std_impl = Head(names)]
                   ELSE found)

\* sstr_impl and std_impl of one benchmark.
Impls(group) == FindImpls(DictKeys(group), [sstr_impl |-> None, std_impl |-> None])

\* benchmark.split('_', 2)[-1]
Label(benchmark) == SplitMax2Last(benchmark, "_")

\* mean * 1000
ToMs(mean) == mean * 1000

\* The loop over benchmarks, from the three lists in acc.
RECURSIVE PlotData(_, _, _)
PlotData(res, benchmarks, acc) ==
    IF benchmarks = <<>> THEN acc
    ELSE LET benchmark == Head(benchmarks)
             group == DictGet(res, benchmark)
             found == Impls(group)
             labelled == [acc EXCEPT !.x_labels = Append(@, Label(benchmark))]
         IN  PlotData(res, Tail(benchmarks),
                 IF Truthy(found.sstr_impl) /\ Truthy(found.std_impl)
                 THEN [labelled EXCEPT
                         !.sstr_means = Append(@, ToMs(DictGet(group, found.sstr_impl).mean)),
                         !.std_means = Append(@, ToMs(DictGet(group, found.std_impl).mean))]
                 ELSE labelled)

\* The three lists are filled for the benchmarks of the panel.
CollectMeans ==
    /\ pc = "collect"
    /\ LET lists == PlotData(results, cats[panel],
                             [x_labels |-> <<>>, sstr_means |-> <<>>, std_means |-> <<>>])
       IN  /\ x_labels' = lists.x_labels
           /\ sstr_means' = lists.sstr_means
           /\ std_means' = lists.std_means
    /\ pc' = "bar"
    /\ UNCHANGED << dir, todo, results, cats, panel, idx, axes, err, saved, printed >>

\* ax.bar(x, height): numpy broadcasts the n positions against the m
\* heights, which it can when n = m or one of them is 1.
Broadcastable(n, m) == n = m \/ n = 1 \/ m = 1

\* The heights of the bars drawn at n positions from the list `height`.
BarHeights(n, height) ==
    IF Len(height) = 1 THEN [i \in 1..n |-> height[1]] ELSE height

\* x = np.arange(len(x_labels)) and the two ax.bar calls.
LayoutBars ==
    /\ pc = "bar"
    /\ Broadcastable(Len(x_labels), Len(sstr_means))
    /\ axes' = [axes EXCEPT ![panel].sstr_bars = BarHeights(Len(x_labels), sstr_means),
                            ![panel].std_bars = BarHeights(Len(x_labels), std_means)]
    /\ idx' = 0
    /\ pc' = "annotate"
    /\ UNCHANGED << dir, todo, results, cats, panel, x_labels, sstr_means,
                    std_means, err, saved, printed >>

\* The first ax.bar call raises: positions and heights do not broadcast.
BarShapeMismatch ==
    /\ pc = "bar"
    /\ ~Broadcastable(Len(x_labels), Len(sstr_means))
    /\ err' = "ValueError"
    /\ pc' = "error"
    /\ UNCHANGED << dir, todo, results, cats, panel, x_labels, sstr_means,
                    std_means, idx, axes, saved, printed >>

\* ((s - t) / t) * 100, as a fraction.
DiffPercent(s, t) == [num |-> (s - t) * 100, den |-> t]

\* diff_percent < 0
Negative(q) == (q.num < 0 /\ q.den > 0) \/ (q.num > 0 /\ q.den < 0)

\* Mutant of Colour: green also for a difference of zero.
ColourNotPositive(q) ==
    IF Negative(q) \/ q.num = 0 THEN "green" ELSE "red"

\* 'green' if diff_percent < 0 else 'red'
Colour(q) == IF Negative(q) THEN "green" ELSE "red"

Max(a, b) == IF a >= b THEN a ELSE b

\* One turn of the annotation loop, for a std mean that is not zero.
AnnotateCluster ==
    /\ pc = "annotate"
    /\ idx < Len(sstr_means)
    /\ std_means[idx + 1] # 0
    /\ LET q == DiffPercent(sstr_means[idx + 1], std_means[idx + 1])
       IN  axes' = [axes EXCEPT ![panel].texts =
                      Append(@, [x |-> idx, diff_percent |-> q, color |-> Colour(q),
                                 above |-> Max(sstr_means[idx + 1], std_means[idx + 1])])]
    /\ idx' = idx + 1
    /\ UNCHANGED << dir, pc, todo, results, cats, panel, x_labels, sstr_means,
                    std_means, err, saved, printed >>

\* One turn of the annotation loop, for a std mean of zero: the division raises.
AnnotateDivideByZero ==
    /\ pc = "annotate"
    /\ idx < Len(sstr_means)
    /\ std_means[idx + 1] = 0
    /\ err' = "ZeroDivisionError"
    /\ pc' = "error"
    /\ UNCHANGED << dir, todo, results, cats, panel, x_labels, sstr_means,
                    std_means, idx, axes, saved, printed >>

\* The statements after the annotation loop, and the return to the caller:
\* the next panel, or tight_layout.
FinishPanel ==
    /\ pc = "annotate"
    /\ idx = Len(sstr_means)
    /\ axes' = [axes EXCEPT ![panel].title = Titles[panel],
                            ![panel].xticklabels = x_labels]
    /\ IF panel < 3
       THEN /\ panel' = panel + 1
            /\ pc' = "collect"
       ELSE /\ panel' = panel
            /\ pc' = "save"
    /\ UNCHANGED << dir, todo, results, cats, x_labels, sstr_means, std_means,
                    idx, err, saved, printed >>

\* plt.tight_layout(); plt.savefig(output_filename)
SaveFigure ==
    /\ pc = "save"
    /\ saved' = TRUE
    /\ pc' = "print"
    /\ UNCHANGED << dir, todo, results, cats, panel, x_labels, sstr_means,
                    std_means, idx, axes, err, printed >>

\* print(f"Plot saved to {output_filename}")
PrintSaved ==
    /\ pc = "print"
    /\ printed' = TRUE
    /\ pc' = "done"
    /\ UNCHANGED << dir, todo, results, cats, panel, x_labels, sstr_means,
                    std_means, idx, axes, err, saved >>

Next ==
    \/ Glob
    \/ LoadFile
    \/ CreateComparisonPlot
    \/ CollectMeans
    \/ LayoutBars
    \/ BarShapeMismatch
    \/ AnnotateCluster
    \/ AnnotateDivideByZero
    \/ FinishPanel
    \/ SaveFigure
    \/ PrintSaved

Spec == Init /\ [][Next]_vars

\* ------------------------------------------------------------- properties
\* The members of a list.
Elems(s) == {s[i] : i \in 1..Len(s)}

\* The files of the directory that the pattern matches.
MatchedFiles == {f \in DOMAIN dir : MatchesPattern(f)}

\* load_benchmark_results is about to return: every file has been loaded.
Loaded == pc = "load" /\ todo = <<>>

\* The names of a group that hold the sstr role, and the std role.
SstrNames(group) == {n \in Elems(DictKeys(group)) : Contains(n, SSTR)}

StdNames(group) ==
    {n \in Elems(DictKeys(group)) : Contains(n, STD) /\ ~Contains(n, SSTR)}

\* A group with a name in each role.
IsPaired(group) == SstrNames(group) # {} /\ StdNames(group) # {}

\* The places of a list of benchmarks whose groups are paired.
PairedPlaces(benchmarks) ==
    {i \in 1..Len(benchmarks) : IsPaired(DictGet(results, benchmarks[i]))}

\* The k-th paired benchmark of a list.
PairedAt(benchmarks, k) ==
    benchmarks[CHOOSE i \in PairedPlaces(benchmarks) :
                 Cardinality({j \in PairedPlaces(benchmarks) : j <= i}) = k]

\* C1: when the lists of a panel are complete, the label list and both bar
\* series hold one entry for each paired group of the panel and none for a
\* group that lacks an sstr or a std name.
C1_UnpairedGroupAddsNothing ==
    pc = "bar" =>
        /\ Len(x_labels) = Cardinality(PairedPlaces(cats[panel]))
        /\ Len(sstr_means) = Cardinality(PairedPlaces(cats[panel]))
        /\ Len(std_means) = Cardinality(PairedPlaces(cats[panel]))

\* C2: a name holds the sstr role when it contains 'sstr', else the std
\* role when it contains 'std'; a group is in the series exactly when it has
\* a name in each role, and its two values are 1000 times the means of a
\* name holding the sstr role and of a name holding the std role.
C2_RolesBySubstringOrder ==
    pc = "bar" =>
        /\ Len(sstr_means) = Cardinality(PairedPlaces(cats[panel]))
        /\ Len(std_means) = Cardinality(PairedPlaces(cats[panel]))
        /\ \A k \in 1..Len(sstr_means) :
             LET group == DictGet(results, PairedAt(cats[panel], k))
             IN  /\ \E n \in SstrNames(group) :
                       sstr_means[k] = 1000 * DictGet(group, n).mean
                 /\ \E n \in StdNames(group) :
                       std_means[k] = 1000 * DictGet(group, n).mean

\* C2 witness: a paired group one of whose names contains both substrings.
C2_Witness ==
    /\ pc = "bar"
    /\ Len(sstr_means) = 1
    /\ \E n \in SstrNames(DictGet(results, PairedAt(cats[panel], 1))) :
          Contains(n, STD)

\* b begins with the text p, character by character.
HasPrefix(b, p) == Len(b) >= Len(p) /\ \A i \in 1..Len(p) : b[i] = p[i]

\* C3: a group name is in the copy, append or format list exactly when it
\* begins with 'results_copy', 'results_append' or 'results_format'; it is
\* in at most one list, once; and a name with none of the prefixes is in no
\* list and the partition raises nothing.
C3_CategoryByPrefix ==
    pc \notin {"glob", "load"} =>
        /\ \A b \in Elems(DictKeys(results)) :
             /\ \A c \in 1..3 : b \in Elems(cats[c]) <=> HasPrefix(b, CategoryPrefixes[c])
             /\ Cardinality({c \in 1..3 : b \in Elems(cats[c])}) <= 1
        /\ \A c \in 1..3 :
             /\ Elems(cats[c]) \subseteq Elems(DictKeys(results))
             /\ Cardinality(Elems(cats[c])) = Len(cats[c])
        /\ (pc = "collect" /\ panel = 1 => err = "none")

\* C3 witness: a group in the copy list beside a group that is in no list.
C3_Witness ==
    /\ pc = "collect"
    /\ panel = 1
    /\ Len(cats[1]) = 1
    /\ \E b \in Elems(DictKeys(results)) : \A c \in 1..3 : b \notin Elems(cats[c])

\* The places of the underscores of b.
Underscores(b) == {i \in 1..Len(b) : b[i] = "_"}

\* C4: the label of a group name with at least two underscores is the text
\* after its second underscore, further underscores included.
C4_LabelAfterSecondUnderscore ==
    pc = "bar" =>
        \A i \in 1..Len(cats[panel]) :
            LET b == cats[panel][i]
            IN  Cardinality(Underscores(b)) >= 2 =>
                  /\ i <= Len(x_labels)
                  /\ \E j \in Underscores(b) :
                        /\ Cardinality({u \in Underscores(b) : u < j}) = 1
                        /\ x_labels[i] = [n \in 1..(Len(b) - j) |-> b[j + n]]

\* C4 witness: a label that itself holds an underscore.
C4_Witness ==
    /\ pc = "bar"
    /\ \E i \in 1..Len(x_labels) : x_labels[i] = << "b", "_", "c" >>

\* C5: the returned dict has one key per matched file, the file's name
\* without its extension, and its content does not depend on the order in
\* which the files were listed: each key's group is that of its file.
C5_OneKeyPerFile ==
    Loaded =>
        /\ Len(results) = Cardinality(MatchedFiles)
        /\ Cardinality(Elems(DictKeys(results))) = Len(results)
        /\ \A key \in Elems(DictKeys(results)) :
             /\ key \o DOT_JSON \in MatchedFiles
             /\ DictGet(results, key) = BenchmarkData(dir[key \o DOT_JSON], EmptyDict)
        /\ \A f \in MatchedFiles : \E key \in Elems(DictKeys(results)) : key \o DOT_JSON = f

\* C5 witness: two files loaded in descending order of their names.
C5_Witness ==
    /\ Loaded
    /\ Len(results) = 2
    /\ LexLess(results[2].k, results[1].k)

\* n is the part of cmd after its last '/', all of cmd without one.
IsDisplayNameOf(n, cmd) ==
    /\ \A i \in 1..Len(n) : n[i] # "/"
    /\ Len(n) <= Len(cmd)
    /\ \A i \in 1..Len(n) : cmd[Len(cmd) - Len(n) + i] = n[i]
    /\ Len(n) < Len(cmd) => cmd[Len(cmd) - Len(n)] = "/"

\* C6: a loaded group has one key per distinct display name of its file,
\* and maps each to the four statistics of the last entry with that name.
C6_LastEntryWins ==
    Loaded =>
        \A key \in Elems(DictKeys(results)) :
            LET entries == dir[key \o DOT_JSON]
                group == DictGet(results, key)
                names == Elems(DictKeys(group))
            IN  /\ Cardinality(names) = Len(group)
                /\ \A i \in 1..Len(entries) :
                      \E n \in names : IsDisplayNameOf(n, entries[i].command)
                /\ \A n \in names :
                      \E i \in 1..Len(entries) :
                          /\ IsDisplayNameOf(n, entries[i].command)
                          /\ \A j \in (i + 1)..Len(entries) :
                                ~IsDisplayNameOf(n, entries[j].command)
                          /\ DictGet(group, n) =
                                [mean |-> entries[i].mean, stddev |-> entries[i].stddev,
                                 min |-> entries[i].min, max |-> entries[i].max]

\* C6 witness: a file with two entries of one display name, from different
\* commands and with different means.
C6_Witness ==
    /\ Loaded
    /\ \E key \in Elems(DictKeys(results)) :
          LET entries == dir[key \o DOT_JSON]
          IN  /\ Len(entries) = 2
              /\ entries[1].command # entries[2].command
              /\ entries[1].mean # entries[2].mean
              /\ Len(DictGet(results, key)) = 1

\* The annotations drawn so far, each with the two bar heights of its cluster.
Annotations ==
    UNION { {[text |-> axes[p].texts[i], s |-> axes[p].sstr_bars[i],
              t |-> axes[p].std_bars[i]] : i \in 1..Len(axes[p].texts)} : p \in 1..3 }

\* C7: the annotation of cluster i is ((sstr_ms[i] - std_ms[i]) / std_ms[i])
\* * 100, green exactly when the sstr mean is below the std mean and red
\* otherwise, equal means included; two clusters with the same two unequal
\* means in swapped roles are annotated in different colours.
C7_ColourBySign ==
    /\ \A p \in 1..3 : Len(axes[p].texts) <= Len(axes[p].sstr_bars)
    /\ pc = "annotate" =>
         \A i \in 1..Len(axes[panel].texts) :
            /\ axes[panel].texts[i].x = i - 1
            /\ axes[panel].sstr_bars[i] = sstr_means[i]
            /\ axes[panel].std_bars[i] = std_means[i]
    /\ \A a \in Annotations :
         /\ a.t > 0
         /\ a.text.diff_percent.den # 0
         /\ a.text.diff_percent.num * a.t = (a.s - a.t) * 100 * a.text.diff_percent.den
         /\ a.text.color = "green" <=> a.s < a.t
         /\ a.text.color = "red" <=> a.s >= a.t
    /\ \A a, b \in Annotations :
         a.s = b.t /\ a.t = b.s /\ a.s # a.t => a.text.color # b.text.color

\* C7 witness: two annotations of swapped means, one green and one red.
C7_Witness ==
    \E a, b \in Annotations :
        /\ a.s = b.t
        /\ a.t = b.s
        /\ a.s < a.t
        /\ a.text.color = "green"
        /\ b.text.color = "red"

\* C8: a run in which a group with a std mean of zero is retained in a
\* panel ends in the division error, with no image written and no
\* confirmation printed.
C8_ZeroStdEndsInDivisionError ==
    (pc \in {"error", "done"} /\ \E i \in 1..Len(std_means) : std_means[i] = 0) =>
        /\ err = "ZeroDivisionError"
        /\ ~saved
        /\ ~printed

\* load_benchmark_results as a whole, for the files listed in the order todo.
RECURSIVE LoadAll(_, _)
LoadAll(files, res) ==
    IF files = <<>> THEN res
    ELSE LoadAll(Tail(files),
                 DictSet(res, BenchmarkName(Head(files)),
                         BenchmarkData(dir[Head(files)], EmptyDict)))

\* The three lists of panel c in a run that lists the files in a given order.
ListsOfRun(order, c) ==
    LET res == LoadAll(order, EmptyDict)
    IN  PlotData(res, CategoryList(Benchmarks(res), c),
                 [x_labels |-> <<>>, sstr_means |-> <<>>, std_means |-> <<>>])

\* C9: the groups of each panel are those of the matched files with the
\* panel's prefix, in ascending order of their names, and the labels and the
\* two series of a panel are those of every run over the same files,
\* whatever the order in which that run lists them.
C9_PanelOrderFromNames ==
    /\ pc = "collect" =>
          \A c \in 1..3 :
             /\ \A i \in 1..(Len(cats[c]) - 1) : LexLess(cats[c][i], cats[c][i + 1])
             /\ Elems(cats[c]) =
                   {key \in {SubSeq(f, 1, Len(f) - Len(DOT_JSON)) : f \in MatchedFiles} :
                       HasPrefix(key, CategoryPrefixes[c])}
    /\ pc = "bar" =>
          \A order \in Orders(MatchedFiles) :
             [x_labels |-> x_labels, sstr_means |-> sstr_means, std_means |-> std_means]
                = ListsOfRun(order, panel)

\* C9 witness: a panel of two groups whose files were loaded in descending
\* order of their names.
C9_Witness ==
    /\ pc = "bar"
    /\ Len(cats[panel]) = 2
    /\ Len(results) = 2
    /\ LexLess(results[2].k, results[1].k)

\* C10: when the bars are laid out, the label list and the two series have
\* one length, and the run never ends in the shape mismatch of ax.bar.
C10_ListsSameLength ==
    /\ pc = "bar" =>
         /\ Len(x_labels) = Len(sstr_means)
         /\ Len(x_labels) = Len(std_means)
    /\ err # "ValueError"

====
